---- MODULE Spec2Model ----
(***************************************************************************)
(* The audio transcription hook useAudioTranscription (recording lifecycle, *)
(* speech-pause segmentation, transcript accumulation, note generation and  *)
(* duplicate suppression) and the Canvas that turns its summaries into      *)
(* notes, as a state machine of browser event-loop tasks.                   *)
(* Every action is one task: a handler runs from its entry to its first     *)
(* suspension on external I/O (getUserMedia, transcribe, generateText), or  *)
(* from the completion of that I/O to the end of the handler.               *)
(*                                                                         *)
(* Times are milliseconds, audio levels and quality scores are thousandths. *)
(* A text is a sequence of words; a summary text also records whether it   *)
(* carries surrounding whitespace.                                          *)
(***************************************************************************)
EXTENDS Integers, Sequences, FiniteSets, TLC

(***************************************************************************)
(* Configuration parameters of the hook.                                    *)
(***************************************************************************)
pauseDetectionThreshold == 400
minSilenceLevel == 20
minContentLength == 3
maxContentLength == 150
minTimeBetweenNotes == 800
audioLevelHistorySize == 20
maxTranscriptionErrors == 3
staleThreshold == 3000
minBlobSize == 800
recentSampleCount == 5
duplicateThresholdPct == 85
overrideScore == 100
noteworthyScore == 150
baseScore == 150
similarityThresholdPct == 80
minNoteInterval == 1500

(***************************************************************************)
(* Bounds of the model.                                                     *)
(***************************************************************************)
ClockStep == 800
MaxBlobBytes == 800
MaxErrors == 4
MaxClockSteps == 5
MaxSessions == 2
MaxFrags == 2
MaxFlushes == 2
MaxLoud == 1
MaxFaults == 1
MaxTranscribing == 2
MaxStopEvents == 2
MaxNotes == 1

Max(a, b) == IF a >= b THEN a ELSE b
Min(a, b) == IF a <= b THEN a ELSE b

RECURSIVE SumSeq(_)
SumSeq(s) ==
    IF Len(s) = 0 THEN 0
    ELSE IF Len(s) = 1 THEN s[1]
    ELSE SumSeq(SubSeq(s, 1, Len(s) \div 2)) + SumSeq(SubSeq(s, Len(s) \div 2 + 1, Len(s)))

(***************************************************************************)
(* String.prototype.toLowerCase on the words of the model's vocabulary.    *)
(***************************************************************************)
LowerWord(w) ==
    CASE w = "Speech" -> "speech"
      [] w = "Ship"   -> "ship"
      [] w = "Beta"   -> "beta"
      [] w = "Meeting" -> "meeting"
      [] w = "The"    -> "the"
      [] OTHER        -> w

LowerWords(ws) == [i \in 1..Len(ws) |-> LowerWord(ws[i])]

(***************************************************************************)
(* analyzeContentQuality.  The indicator table with its weights; which      *)
(* indicator patterns and how many filler patterns occur in a (lowercased)  *)
(* word of the vocabulary.  No word of the vocabulary ends one of the       *)
(* multi-word alternatives, and the capital-letter pattern cannot match the *)
(* lowercased text.                                                         *)
(***************************************************************************)
IndicatorWeight(name) ==
    CASE name = "numbers"                -> 120
      [] name = "proper nouns"           -> 80
      [] name = "factual statements"     -> 50
      [] name = "technical terms"        -> 80
      [] name = "comparisons"            -> 50
      [] name = "time references"        -> 50
      [] name = "causal relationships"   -> 80
      [] name = "structured information" -> 50
      [] name = "definitions"            -> 50
      [] name = "names"                  -> 50
      [] name = "work terms"             -> 50
      [] name = "locations"              -> 50
      [] name = "action verbs"           -> 50

IndicatorNames ==
    << "numbers", "proper nouns", "factual statements", "technical terms",
       "comparisons", "time references", "causal relationships",
       "structured information", "definitions", "names", "work terms",
       "locations", "action verbs" >>

WordIndicators(w) ==
    CASE w = "20"       -> {"numbers"}
      [] w = "report"   -> {"technical terms", "work terms"}
      [] w = "data"     -> {"technical terms"}
      [] w = "tomorrow" -> {"time references"}
      [] OTHER          -> {}

WordFillers(w) ==
    CASE w = "um" -> 1
      [] w = "so" -> 1
      [] w = "umumum" -> 3
      [] OTHER    -> 0

IsQuestion(ws) == \E i \in 1..Len(ws) : ws[i] = "?"

\* split(/\s+/) of a trimmed text given as its split(' ') pieces: a piece is
\* empty where the text has two spaces in a row, and such pieces are no words.
NonEmptyWords(ws) == SelectSeq(ws, LAMBDA w : w # "")

ClampScore_None(raw, wordCount) == raw

\* Math.max(0, Math.min(1, score)), in units of 1 / (1000 * wordCount)
ClampScore(raw, wordCount) == Max(0, Min(1000 * wordCount, raw))

\* The score is the rational num / den; den = 1000 * wordCount keeps the
\* filler density (fillerCount / wordCount) exact.
analyzeContentQuality(text) ==
    LET normalizedText == NonEmptyWords(LowerWords(text))
        wordCount == Len(normalizedText)
        found == [i \in 1..Len(IndicatorNames) |->
                    \E j \in 1..wordCount :
                        IndicatorNames[i] \in WordIndicators(normalizedText[j])]
        weights == [i \in 1..Len(IndicatorNames) |->
                    IF found[i] THEN IndicatorWeight(IndicatorNames[i]) ELSE 0]
        fillerCount == SumSeq([j \in 1..wordCount |-> WordFillers(normalizedText[j])])
        lengthAdj == IF wordCount > 5 /\ wordCount < 100 THEN 50
                     ELSE IF wordCount > 150 THEN -50 ELSE 0
        questionAdj == IF IsQuestion(normalizedText) THEN -20 ELSE 0
        raw == (baseScore + SumSeq(weights) + lengthAdj + questionAdj) * wordCount
               - 100 * fillerCount
        num == ClampScore(raw, wordCount)
    IN  IF wordCount = 0
          THEN [num |-> 0, den |-> 1000, isNoteworthy |-> FALSE, reason |-> "Empty content"]
        ELSE IF wordCount < 3
          THEN [num |-> 100, den |-> 1000, isNoteworthy |-> FALSE,
                reason |-> "Content too short"]
        ELSE [num |-> num, den |-> 1000 * wordCount,
              isNoteworthy |-> (num >= noteworthyScore * wordCount),
              reason |-> IF num >= noteworthyScore * wordCount
                            THEN "Content contains"
                         ELSE IF \E i \in 1..Len(found) : found[i]
                            THEN "Insufficient information density"
                         ELSE "No significant information detected"]

(***************************************************************************)
(* Summary texts: [pad, words].  pad = the string starts and ends with     *)
(* whitespace.                                                              *)
(***************************************************************************)
Text(ws) == [pad |-> FALSE, words |-> ws]
Padded(ws) == [pad |-> TRUE, words |-> ws]

Trim(t) == [t EXCEPT !.pad = FALSE]
ToLower(t) == [t EXCEPT !.words = LowerWords(t.words)]
IsEmptyString(t) == ~t.pad /\ t.words = <<>>

\* s.split(/\s+/): surrounding whitespace yields a leading and a trailing "".
SplitWs(t) ==
    IF t.pad THEN <<"">> \o t.words \o <<"">>
    ELSE IF t.words = <<>> THEN <<"">> ELSE t.words

SeqIncludes(s, x) == \E i \in 1..Len(s) : s[i] = x

\* calculateSimpleStringSimilarity: the ratio num / den.
calculateSimpleStringSimilarity(str1, str2) ==
    LET s1 == ToLower(str1)
        s2 == ToLower(str2)
        words1 == SplitWs(s1)
        words2 == SplitWs(s2)
        matchCount == Cardinality({i \in 1..Len(words1) : SeqIncludes(words2, words1[i])})
    IN  IF s1 = s2 THEN [num |-> 1, den |-> 1]
        ELSE IF IsEmptyString(s1) \/ IsEmptyString(s2) THEN [num |-> 0, den |-> 1]
        ELSE [num |-> matchCount, den |-> Max(Len(words1), Len(words2))]

ExceedsDuplicateThreshold_Always(sim) == TRUE

\* similarity > 0.85
ExceedsDuplicateThreshold(sim) == sim.num * 100 > duplicateThresholdPct * sim.den

(***************************************************************************)
(* text-utils: calculateStringSimilarity (Levenshtein distance over the     *)
(* characters) and isSimilarToExisting.  Spell gives the characters of each *)
(* word the note generator's texts are made of.                             *)
(***************************************************************************)
Spell(w) ==
    CASE w = "Ship"     -> <<"S", "h", "i", "p">>
      [] w = "ship"     -> <<"s", "h", "i", "p">>
      [] w = "Beta"     -> <<"B", "e", "t", "a">>
      [] w = "beta"     -> <<"b", "e", "t", "a">>
      [] w = "friday"   -> <<"f", "r", "i", "d", "a", "y">>
      [] w = "after"    -> <<"a", "f", "t", "e", "r">>
      [] w = "the"      -> <<"t", "h", "e">>
      [] w = "security" -> <<"s", "e", "c", "u", "r", "i", "t", "y">>
      [] w = "review"   -> <<"r", "e", "v", "i", "e", "w">>
      [] w = "audit"    -> <<"a", "u", "d", "i", "t">>
      [] w = "Meeting"  -> <<"M", "e", "e", "t", "i", "n", "g">>
      [] w = "meeting"  -> <<"m", "e", "e", "t", "i", "n", "g">>
      [] w = "moved"    -> <<"m", "o", "v", "e", "d">>
      [] w = "to"       -> <<"t", "o">>
      [] w = "3pm"      -> <<"3", "p", "m">>
      [] w = "tomorrow" -> <<"t", "o", "m", "o", "r", "r", "o", "w">>
      [] w = "The"      -> <<"T", "h", "e">>
      [] w = "is"       -> <<"i", "s">>

LowerChar_Identity(c) == c

LowerChar(c) ==
    CASE c = "S" -> "s"
      [] c = "B" -> "b"
      [] c = "M" -> "m"
      [] c = "T" -> "t"
      [] OTHER   -> c

RECURSIVE JoinWords(_)
JoinWords(ws) ==
    IF ws = <<>> THEN <<>>
    ELSE IF Len(ws) = 1 THEN Spell(ws[1])
    ELSE Spell(ws[1]) \o <<" ">> \o JoinWords(Tail(ws))

\* the characters of a text; a padded text has a space before and after
Chars(t) == IF t.pad THEN <<" ">> \o JoinWords(t.words) \o <<" ">> ELSE JoinWords(t.words)

\* str.toLowerCase().trim()
NormalizedChars(t) ==
    LET cs == JoinWords(t.words) IN [i \in 1..Len(cs) |-> LowerChar(cs[i])]

\* matrix[i][1..b.length] from matrix[i - 1]; acc = matrix[i][0..j-1]
RECURSIVE FillRow(_, _, _, _, _)
FillRow(prev, ai, b, j, acc) ==
    IF j > Len(b) THEN acc
    ELSE LET cost == IF ai = b[j] THEN 0 ELSE 1
             cell == Min(Min(prev[j + 1] + 1, acc[j] + 1), prev[j] + cost)
             next == Append(acc, cell)
         IN  IF Len(next) = j + 1 THEN FillRow(prev, ai, b, j + 1, next) ELSE <<>>

\* the rows i..a.length of the matrix; prev = matrix[i - 1]; yields the last row
RECURSIVE FillMatrix(_, _, _, _)
FillMatrix(a, b, i, prev) ==
    IF i > Len(a) THEN prev
    ELSE LET row == FillRow(prev, a[i], b, 1, <<i>>)
         IN  IF Len(row) = Len(b) + 1 THEN FillMatrix(a, b, i + 1, row) ELSE <<>>

\* matrix[a.length][b.length]
Levenshtein(a, b) == FillMatrix(a, b, 1, [j \in 1..(Len(b) + 1) |-> j - 1])[Len(b) + 1]

\* The similarity 1 - distance / maxLength as the rational num / den.
calculateStringSimilarity(str1, str2) ==
    LET a == NormalizedChars(str1)
        b == NormalizedChars(str2)
        maxLength == Max(Len(a), Len(b))
    IN  IF str1 = str2 THEN [num |-> 1, den |-> 1]
        ELSE IF Chars(str1) = <<>> \/ Chars(str2) = <<>> THEN [num |-> 0, den |-> 1]
        ELSE IF maxLength = 0 THEN [num |-> 1, den |-> 1]
        ELSE [num |-> maxLength - Levenshtein(a, b), den |-> maxLength]

\* 'Meeting moved to 3pm tomorrow', 'The meeting is moved to 3pm tomorrow'
MeetingMoved == Text(<<"Meeting", "moved", "to", "3pm", "tomorrow">>)
TheMeetingIsMoved == Text(<<"The", "meeting", "is", "moved", "to", "3pm", "tomorrow">>)

\* The texts that can be the content of a note ('' is the content of a note the
\* user has added), and calculateStringSimilarity of each pair of them, computed
\* once.
NoteTexts ==
    << Text(<<>>),
       Text(<<"Ship", "beta", "friday">>),
       Padded(<<"ship", "Beta", "friday">>),
       Text(<<"ship", "beta", "friday", "after", "the", "security", "review">>),
       Text(<<"ship", "beta", "friday", "after", "the", "security", "audit">>),
       MeetingMoved,
       TheMeetingIsMoved >>

RECURSIVE SimilarityRow(_, _)
SimilarityRow(i, n) ==
    IF n = 0 THEN <<>>
    ELSE Append(SimilarityRow(i, n - 1), calculateStringSimilarity(NoteTexts[i], NoteTexts[n]))

RECURSIVE SimilarityRows(_)
SimilarityRows(n) ==
    IF n = 0 THEN <<>> ELSE Append(SimilarityRows(n - 1), SimilarityRow(n, Len(NoteTexts)))

SimilarityTable == SimilarityRows(Len(NoteTexts))

NoteTextIndex(t) == CHOOSE i \in 1..Len(NoteTexts) : NoteTexts[i] = t

StringSimilarity(str1, str2) == SimilarityTable[NoteTextIndex(str1)][NoteTextIndex(str2)]

ReachesSimilarityThreshold_Never(sim) == FALSE

\* similarity >= threshold (0.8)
ReachesSimilarityThreshold(sim) == sim.num * 100 >= similarityThresholdPct * sim.den

isSimilarToExisting(text, existingTexts) ==
    /\ Trim(text).words # <<>>
    /\ \E i \in 1..Len(existingTexts) :
          ReachesSimilarityThreshold(StringSimilarity(text, existingTexts[i]))


(***************************************************************************)
(* Inputs of the environment.                                               *)
(***************************************************************************)
\* Texts the transcription service returns (a chunk of speech): one word; filler
\* that scores below 0.1; content that scores 0.4.  No concatenation of them has
\* a score at which the double arithmetic of the code and the exact arithmetic of
\* analyzeContentQuality above fall on different sides of 0.1 or 0.15.
TranscriptTexts ==
    { <<"ok">>, <<"um", "so", "um", "yes">>, <<"report", "shows", "20">> }

\* Texts that exercise the flush rules: one word; two words with two spaces
\* between them ('hi  there', three pieces for split(' ')); maxContentLength
\* words, each matching the "technical terms" pattern.
LongText == [i \in 1..maxContentLength |-> "data"]
RuleTexts == { <<"ok">>, <<"hi", "", "there">>, LongText }

\* 'Speech detected but transcription unavailable.'
fallbackMessage == <<"Speech", "detected", "but", "transcription", "unavailable.">>
FallbackFrag == [id |-> 0, txt |-> fallbackMessage]

\* Texts the note generator returns.
NoNoteworthy == Text(<<"NO_NOTEWORTHY_CONTENT">>)
\* Two texts that differ in case and surrounding whitespace only, and two
\* seven-word texts that share six words (overlap 6/7 > 0.85; 3/7 with the first).
SummaryTexts ==
    { Text(<<"Ship", "beta", "friday">>),
      Padded(<<"ship", "Beta", "friday">>),
      Text(<<"ship", "beta", "friday", "after", "the", "security", "review">>),
      Text(<<"ship", "beta", "friday", "after", "the", "security", "audit">>),
      NoNoteworthy }

\* Sampled levels (thousandths): silence and speech.
Levels == {0, 500}
\* Sizes of the data a recorder delivers in one dataavailable event (bytes).
ChunkSizes == {400, 800}

NoTime == -1
NoQuality == [num |-> -1, den |-> 1, isNoteworthy |-> FALSE, reason |-> "null"]
NoText == Text(<<>>)

VARIABLES
    now,                \* Date.now()
    isRecording,        \* Canvas: isRecording
    session,            \* number of startRecording calls so far
    startsPending,      \* startRecording calls suspended in getUserMedia
    streamRef,          \* streamRef.current # null
    liveStreams,        \* acquired streams whose tracks have not been stopped
    audioContext,       \* audioContextRef.current # null
    analyser,           \* analyserRef.current # null
    mediaRecorder,      \* mediaRecorderRef.current: "null", or its recorder's state
    audioBytes,         \* total size of audioChunksRef.current
    intervalRef,        \* processingTimeoutRef.current # null
    intervals,          \* setInterval timers not cleared
    animationFrame,     \* animationFrameRef.current # null
    loops,              \* requestAnimationFrame callbacks scheduled
    history,            \* audioLevelHistoryRef.current
    audioLevel,         \* state audioLevel
    silenceStart,       \* silenceStartTimeRef.current (NoTime = null)
    lastProcessingTime, \* lastProcessingTimeRef.current
    buffer,             \* accumulatedTranscriptionRef.current, as fragments
    processedSummaries, \* processedSummariesRef.current
    filteredCount,      \* filteredContentCountRef.current
    errorCount,         \* transcriptionErrorCountRef.current
    summary,            \* state summary
    transcription,      \* state transcription
    isProcessing,       \* state isProcessing
    contentQuality,     \* state contentQuality
    stopEvents,         \* recorders stopped whose onstop handler has not run yet
    transcribing,       \* transcribe calls in flight, per session that issued them
    flushes,            \* processAccumulatedContent invocations awaiting generateText
    nextFlush,          \* processAccumulatedContent invocations that reached scoring
    emitted,            \* the notes passed to setSummary, in order
    scored,             \* per transcript fragment, the invocations that scored it
    cleared,            \* transcript fragments removed by an invocation's buffer reset
    pauseFlushes,       \* times of this session's invocations started by the pause rule
    lastOutcome,        \* how the invocation that finished last ended
    lastText,           \* the text generateText returned to it (NoText: no text)
    failRun,            \* transcriptions in a row that threw or returned no text
    fallbacks,          \* fallback messages appended in the current run of failures
    nextFrag,           \* transcript fragments appended so far
    loud,               \* non-silent samples taken so far
    faults,             \* device/recorder faults injected so far
    notes,              \* Canvas: the notes, [content, rawTranscription, createdAt]
    lastSummaryRef,     \* Canvas: the summary the last note was made from
    lastNoteTimeRef,    \* Canvas: when the last note was made (NoTime: never)
    processedContentsRef, \* Canvas: trimmed contents of the notes made from summaries
    calc                \* the last call of a text function made on its own: [fn, arguments, value]

devVars  == <<streamRef, liveStreams, audioContext, analyser, intervalRef, intervals>>
recVars  == <<mediaRecorder, audioBytes, stopEvents>>
monVars  == <<animationFrame, loops, history, silenceStart, loud>>
flushVars == <<buffer, flushes, nextFlush, filteredCount, transcription, contentQuality,
               scored, cleared, pauseFlushes>>
noteVars == <<processedSummaries, summary, emitted, lastProcessingTime>>
errVars == <<errorCount, failRun, fallbacks>>
sinkVars == <<notes, lastSummaryRef, lastNoteTimeRef, processedContentsRef>>
hookVars == <<now, isRecording, session, startsPending, devVars, recVars, monVars,
              audioLevel, flushVars, noteVars, errVars, lastOutcome, lastText, isProcessing,
              transcribing, nextFrag, faults, sinkVars>>
vars == <<hookVars, calc>>

NoCalc == [fn |-> "none", str1 |-> NoText, str2 |-> NoText, text |-> <<>>,
           value |-> [num |-> 0, den |-> 1], analysis |-> NoQuality]

Sessions == 1..MaxSessions
FragRange == 1..MaxFrags

Init ==
    /\ now = ClockStep
    /\ isRecording = FALSE
    /\ session = 0
    /\ startsPending = 0
    /\ streamRef = FALSE /\ liveStreams = 0
    /\ audioContext = FALSE /\ analyser = FALSE
    /\ mediaRecorder = "null" /\ audioBytes = 0
    /\ intervalRef = FALSE /\ intervals = 0
    /\ animationFrame = FALSE /\ loops = 0
    /\ history = <<>> /\ audioLevel = 0
    /\ silenceStart = NoTime /\ lastProcessingTime = 0
    /\ buffer = <<>>
    /\ processedSummaries = {}
    /\ filteredCount = 0 /\ errorCount = 0
    /\ summary = NoText /\ transcription = <<>>
    /\ isProcessing = FALSE /\ contentQuality = NoQuality
    /\ stopEvents = 0
    /\ transcribing = [s \in Sessions |-> 0]
    /\ flushes = {} /\ nextFlush = 0 /\ emitted = <<>>
    /\ scored = [x \in FragRange |-> 0] /\ cleared = {}
    /\ pauseFlushes = <<>> /\ fallbacks = 0 /\ failRun = 0
    /\ lastOutcome = "none" /\ lastText = NoText
    /\ nextFrag = 0 /\ loud = 0 /\ faults = 0
    /\ notes = <<>> /\ lastSummaryRef = NoText
    /\ lastNoteTimeRef = NoTime /\ processedContentsRef = {}
    /\ calc = NoCalc

(***************************************************************************)
(* The accumulated transcription.  Each fragment is appended as ' ' + text, *)
(* so the raw string starts with a space whenever it is not empty.          *)
(***************************************************************************)
RECURSIVE BufferWords(_)
BufferWords(buf) == IF buf = <<>> THEN <<>> ELSE Head(buf).txt \o BufferWords(Tail(buf))

\* accumulatedTranscriptionRef.current.split(' ').length on the untrimmed string:
\* ''.split(' ') is [''], and the leading space adds an empty first element.
RawWordCount(buf) == Len(BufferWords(buf)) + 1

\* content.split(' ').length on the trimmed string (content is not empty).
TrimmedWordCount(buf) == Len(BufferWords(buf))

BufferIncludes(buf, msg) == \E i \in 1..Len(buf) : buf[i].txt = msg

FragIds(buf) == {buf[i].id : i \in 1..Len(buf)} \ {0}

(***************************************************************************)
(* Canvas: the effect that makes a note from the summary.  It runs after a  *)
(* render in which summary or transcription has changed.  lastNoteTimeRef   *)
(* starts at 0, which Date.now() exceeds by far more than minNoteInterval:  *)
(* NoTime stands for it.                                                    *)
(***************************************************************************)
Sink == [notes |-> notes, lastSummary |-> lastSummaryRef,
         lastNoteTime |-> lastNoteTimeRef, processed |-> processedContentsRef]

NoteContents(ns) == [i \in 1..Len(ns) |-> ns[i].content]

TooSoonAfterLastNote_Never(lastNoteTime) == FALSE

\* timeSinceLastNote < 1500
TooSoonAfterLastNote(lastNoteTime) ==
    lastNoteTime # NoTime /\ now - lastNoteTime < minNoteInterval

SummaryEffect(sm, tr, k) ==
    IF /\ ~IsEmptyString(sm)
       /\ Trim(sm).words # <<>>
       /\ sm # k.lastSummary
       /\ Trim(sm) \notin k.processed
       /\ ~isSimilarToExisting(sm, NoteContents(k.notes))
       /\ ~TooSoonAfterLastNote(k.lastNoteTime)
      THEN [notes |-> Append(k.notes, [content |-> sm, rawTranscription |-> tr,
                                       createdAt |-> now]),
            lastSummary |-> sm,
            lastNoteTime |-> now,
            processed |-> k.processed \cup {Trim(sm)}]
      ELSE k

ResetProcessedContents_Keeps(recording, processed) == processed

\* Canvas: the effect on isRecording ("Reset processed contents when recording starts")
ResetProcessedContents(recording, processed) == IF recording THEN {} ELSE processed

SetSink(k) ==
    /\ notes' = k.notes
    /\ lastSummaryRef' = k.lastSummary
    /\ lastNoteTimeRef' = k.lastNoteTime
    /\ processedContentsRef' = k.processed

(***************************************************************************)
(* generateTopicalNote up to its call of generateText: scoring and the      *)
(* caller-side override.                                                    *)
(***************************************************************************)
OverrideAnalysis_None(a) == a

\* if (!analysis.isNoteworthy && analysis.score >= 0.1)
OverrideAnalysis(a) ==
    IF ~a.isNoteworthy /\ a.num * 1000 >= overrideScore * a.den
      THEN [a EXCEPT !.isNoteworthy = TRUE,
                     !.reason = "Content may contain useful information"]
      ELSE a

(***************************************************************************)
(* processAccumulatedContent from its entry to the call of generateText (or *)
(* to its end when no call is made).  buf is the buffer the handler has     *)
(* built so far.                                                            *)
(***************************************************************************)
NoFlush(buf) ==
    [ran |-> FALSE, awaiting |-> FALSE, buffer |-> buf, filtered |-> 0,
     quality |-> NoQuality, kind |-> "none", content |-> <<>>]

GuardedContent_Never(buf) == FALSE

\* content && content.split(' ').length >= minContentLength
GuardedContent(buf) == BufferWords(buf) # <<>> /\ TrimmedWordCount(buf) >= minContentLength

StartFlush(buf, kind) ==
    LET analysis == OverrideAnalysis(analyzeContentQuality(BufferWords(buf)))
    IN  IF ~GuardedContent(buf) THEN NoFlush(buf)
        ELSE IF analysis.isNoteworthy
          THEN [ran |-> TRUE, awaiting |-> TRUE, buffer |-> buf, filtered |-> 0,
                quality |-> analysis, kind |-> kind, content |-> buf]
          ELSE [ran |-> TRUE, awaiting |-> FALSE, buffer |-> <<>>, filtered |-> 1,
                quality |-> analysis, kind |-> kind, content |-> buf]

ApplyFlush(f) ==
    /\ f.ran => nextFlush < MaxFlushes
    /\ buffer' = f.buffer
    /\ nextFlush' = IF f.ran THEN nextFlush + 1 ELSE nextFlush
    /\ flushes' = IF f.awaiting
                    THEN flushes \cup {[id |-> nextFlush + 1, kind |-> f.kind, at |-> now,
                                        sess |-> session, content |-> f.content]}
                    ELSE flushes
    /\ filteredCount' = filteredCount + f.filtered
    /\ transcription' = IF f.ran THEN BufferWords(f.content) ELSE transcription
    /\ contentQuality' = IF f.ran THEN f.quality ELSE contentQuality
    /\ scored' = IF f.ran
                   THEN [x \in FragRange |->
                           IF x \in FragIds(f.content) THEN scored[x] + 1 ELSE scored[x]]
                   ELSE scored
    /\ cleared' = IF f.ran /\ ~f.awaiting THEN cleared \cup FragIds(f.content) ELSE cleared
    /\ pauseFlushes' = IF f.ran /\ f.kind = "pause" THEN Append(pauseFlushes, now)
                       ELSE pauseFlushes
    /\ lastOutcome' = IF f.ran /\ ~f.awaiting THEN "filtered" ELSE lastOutcome
    /\ lastText' = IF f.ran /\ ~f.awaiting THEN NoText ELSE lastText
    \* setTranscription(content): a render with a new transcription runs the
    \* Canvas effect on the summary as it is
    /\ SetSink(IF f.ran /\ BufferWords(f.content) # transcription
                 THEN SummaryEffect(summary, BufferWords(f.content), Sink)
                 ELSE Sink)

(***************************************************************************)
(* The recorder.                                                            *)
(***************************************************************************)
\* createAndStartMediaRecorder(stream): a recorder that is still recording is
\* stopped (its onstop handler will run), then a new one is created and started;
\* fails = the MediaRecorder constructor throws.
createAndStartMediaRecorder(rec, fails) ==
    [rec   |-> IF fails THEN "null" ELSE "recording",
     stops |-> IF rec = "recording" THEN 1 ELSE 0,
     ok    |-> ~fails]

\* "Restart recording if still active": start(1000) on the current recorder; it
\* throws InvalidStateError unless the recorder is inactive, or on a fault of the
\* device; when it throws, a new recorder is created.
\* fault: "none", "start" (start throws), "create" (start and the constructor throw).
RestartRecording_Never(stream, rec, fault) == [rec |-> rec, stops |-> 0, entered |-> FALSE]

RestartRecording(stream, rec, fault) ==
    IF ~(stream /\ rec # "null") THEN [rec |-> rec, stops |-> 0, entered |-> FALSE]
    ELSE IF rec = "inactive" /\ fault = "none"
      THEN [rec |-> "recording", stops |-> 0, entered |-> TRUE]
    ELSE LET c == createAndStartMediaRecorder(rec, fault = "create")
         IN  [rec |-> c.rec, stops |-> c.stops, entered |-> TRUE]

FaultChoices == {"none", "start", "create"}
FaultAllowed(fault) == fault # "none" => faults < MaxFaults
FaultCount(fault) == IF fault = "none" THEN 0 ELSE 1

(***************************************************************************)
(* Time passes.  Only the time elapsed since the first startRecording is    *)
(* read by the hook.                                                        *)
(***************************************************************************)
AdvanceBy(step) ==
    /\ session > 0
    /\ now + step <= ClockStep * MaxClockSteps
    /\ now' = now + step
    /\ UNCHANGED <<sinkVars, calc>>
    /\ UNCHANGED <<isRecording, session, startsPending, devVars, recVars, monVars,
                   audioLevel, flushVars, noteVars, errVars, lastOutcome, lastText, isProcessing,
                   transcribing, nextFrag, faults>>

Advance == AdvanceBy(ClockStep)

(***************************************************************************)
(* startRecording up to getUserMedia (Canvas sets isRecording).             *)
(***************************************************************************)
StartRecording ==
    /\ ~isRecording
    /\ session < MaxSessions
    /\ isRecording' = TRUE
    /\ session' = session + 1
    /\ buffer' = <<>>
    /\ lastProcessingTime' = now
    /\ silenceStart' = NoTime
    /\ history' = <<>>
    /\ processedSummaries' = {}
    /\ filteredCount' = 0
    /\ errorCount' = 0
    /\ contentQuality' = NoQuality
    /\ audioLevel' = 0
    /\ startsPending' = startsPending + 1
    /\ pauseFlushes' = <<>>
    /\ fallbacks' = 0
    /\ failRun' = 0
    /\ processedContentsRef' = ResetProcessedContents(TRUE, processedContentsRef)
    /\ UNCHANGED <<notes, lastSummaryRef, lastNoteTimeRef>>
    /\ UNCHANGED <<calc, now, devVars, recVars, animationFrame, loops, loud, flushes, nextFlush,
                   transcription, scored, cleared, summary, emitted, lastOutcome, lastText,
                   isProcessing, transcribing, nextFrag, faults>>

(***************************************************************************)
(* startRecording from the completion of getUserMedia.                      *)
(* outcome: "ok"; "denied" (getUserMedia rejects); "noctx" (the audio       *)
(* context cannot be set up); "norecorder" (createAndStartMediaRecorder     *)
(* returns false).                                                          *)
(***************************************************************************)
StartOutcomes == {"ok", "denied", "noctx", "norecorder"}

GetUserMediaDone(outcome) ==
    /\ startsPending > 0
    /\ outcome # "ok" => faults < MaxFaults
    /\ faults' = faults + (IF outcome = "ok" THEN 0 ELSE 1)
    /\ startsPending' = startsPending - 1
    /\ IF outcome = "denied"
         THEN /\ isProcessing' = FALSE
              /\ UNCHANGED <<devVars, recVars, animationFrame, loops, history>>
         ELSE LET c == createAndStartMediaRecorder(mediaRecorder, outcome = "norecorder")
              IN  /\ streamRef' = TRUE
                  /\ liveStreams' = liveStreams + 1
                  /\ IF outcome = "noctx"
                       THEN UNCHANGED <<audioContext, analyser, history, animationFrame,
                                        loops>>
                       ELSE /\ audioContext' = TRUE
                            /\ analyser' = TRUE
                            /\ history' = [i \in 1..audioLevelHistorySize |-> 0]
                            /\ animationFrame' = TRUE
                            /\ loops' = loops + 1
                  /\ mediaRecorder' = c.rec
                  /\ stopEvents' = stopEvents + c.stops
                  /\ audioBytes' = IF c.ok THEN 0 ELSE audioBytes
                  /\ IF c.ok
                       THEN /\ intervalRef' = TRUE
                            /\ intervals' = intervals + 1
                            /\ UNCHANGED isProcessing
                       ELSE /\ isProcessing' = FALSE
                            /\ UNCHANGED <<intervalRef, intervals>>
    /\ UNCHANGED sinkVars
    /\ UNCHANGED <<calc, now, isRecording, session, silenceStart, loud, audioLevel, flushVars,
                   noteVars, errVars, lastOutcome, lastText, transcribing, nextFrag>>

(***************************************************************************)
(* stopRecording up to the end of its processAccumulatedContent call's     *)
(* synchronous part (Canvas clears isRecording).                            *)
(***************************************************************************)
StopRecording ==
    LET f == IF BufferWords(buffer) # <<>> THEN StartFlush(buffer, "stop")
             ELSE NoFlush(buffer)
    IN  /\ isRecording
        /\ isRecording' = FALSE
        /\ animationFrame' = FALSE
        /\ loops' = IF animationFrame THEN loops - 1 ELSE loops
        /\ intervalRef' = FALSE
        /\ intervals' = IF intervalRef THEN intervals - 1 ELSE intervals
        /\ mediaRecorder' = "null"
        /\ stopEvents' = stopEvents + (IF mediaRecorder = "recording" THEN 1 ELSE 0)
        /\ streamRef' = FALSE
        /\ liveStreams' = IF streamRef THEN liveStreams - 1 ELSE liveStreams
        /\ audioContext' = FALSE
        /\ ApplyFlush(f)
        /\ isProcessing' = IF f.ran THEN f.awaiting ELSE isProcessing
        /\ audioLevel' = IF f.awaiting THEN audioLevel ELSE 0
        /\ UNCHANGED <<calc, now, session, startsPending, analyser, audioBytes, history,
                       silenceStart, loud, noteVars, errVars, transcribing, nextFrag,
                       faults>>

(***************************************************************************)
(* The setInterval callback of startRecording.                              *)
(***************************************************************************)
IntervalTick ==
    /\ intervals > 0
    /\ mediaRecorder = "recording"
    /\ mediaRecorder' = "inactive"
    /\ stopEvents' = stopEvents + 1
    /\ UNCHANGED sinkVars
    /\ UNCHANGED <<calc, now, isRecording, session, startsPending, devVars, audioBytes,
                   monVars, audioLevel, flushVars, noteVars, errVars, lastOutcome, lastText,
                   isProcessing, transcribing, nextFrag, faults>>

(***************************************************************************)
(* mediaRecorder.ondataavailable (one timeslice of a recording recorder).   *)
(***************************************************************************)
DataAvailable(size) ==
    /\ mediaRecorder = "recording"
    /\ audioBytes + size <= MaxBlobBytes
    /\ audioBytes' = audioBytes + size
    /\ UNCHANGED sinkVars
    /\ UNCHANGED <<calc, now, isRecording, session, startsPending, devVars, mediaRecorder,
                   stopEvents, monVars, audioLevel, flushVars, noteVars, errVars,
                   lastOutcome, lastText, isProcessing, transcribing, nextFrag, faults>>

(***************************************************************************)
(* mediaRecorder.onstop: processAudioChunks up to the call of transcribe   *)
(* (or to its end when no call is made).  final = size of the data the      *)
(* stopped recorder delivered before its stop event.                        *)
(***************************************************************************)
TotalTranscribing == SumSeq([s \in Sessions |-> transcribing[s]])

\* audioBlob.size < 800
IsUndersized_Never(bytes) == FALSE

IsUndersized(bytes) == bytes < minBlobSize

OnRecorderStop(final, fault) ==
    LET bytes == audioBytes + final
        r1 == RestartRecording(streamRef, mediaRecorder, fault)
        \* the undersized branch restarts, returns, and the finally block restarts again
        r2 == RestartRecording(streamRef, r1.rec, "none")
    IN  /\ stopEvents > 0
        /\ bytes <= MaxBlobBytes
        /\ FaultAllowed(fault)
        /\ IF bytes = 0
             THEN /\ isProcessing' = FALSE
                  /\ mediaRecorder' = r1.rec
                  /\ stopEvents' = stopEvents - 1 + r1.stops
                  /\ audioBytes' = bytes
                  /\ faults' = faults + FaultCount(fault)
                  /\ fault # "none" => r1.entered
                  /\ UNCHANGED transcribing
           ELSE IF IsUndersized(bytes)
             THEN /\ isProcessing' = FALSE
                  /\ mediaRecorder' = r2.rec
                  /\ stopEvents' = stopEvents - 1 + r1.stops + r2.stops
                  /\ audioBytes' = IF r1.entered THEN 0 ELSE bytes
                  /\ faults' = faults + FaultCount(fault)
                  /\ fault # "none" => r1.entered
                  /\ UNCHANGED transcribing
           ELSE /\ fault = "none"
                /\ session > 0
                /\ TotalTranscribing < MaxTranscribing
                /\ isProcessing' = TRUE
                /\ transcribing' = [transcribing EXCEPT ![session] = @ + 1]
                /\ stopEvents' = stopEvents - 1
                /\ audioBytes' = bytes
                /\ UNCHANGED <<mediaRecorder, faults>>
        /\ UNCHANGED sinkVars
        /\ UNCHANGED <<calc, now, isRecording, session, startsPending, devVars, monVars,
                       audioLevel, flushVars, noteVars, errVars, lastOutcome, lastText, nextFrag>>

(***************************************************************************)
(* handleTranscriptionError, called with the error count it reads; yields   *)
(* the new count and the flush it starts.                                   *)
(***************************************************************************)
handleTranscriptionError(count) ==
    LET newCount == count + 1
    IN  IF newCount >= maxTranscriptionErrors /\ ~BufferIncludes(buffer, fallbackMessage)
          THEN [count |-> newCount, appended |-> 1,
                flush |-> StartFlush(Append(buffer, FallbackFrag), "fallback")]
          ELSE [count |-> newCount, appended |-> 0, flush |-> NoFlush(buffer)]

(***************************************************************************)
(* processAudioChunks from the completion of transcribe to its end.         *)
(* s = session that issued the call; result = [ok, text]: ok is false when  *)
(* the call rejects or times out, text is the transcribed text.             *)
(***************************************************************************)
TranscribeResults ==
    {[ok |-> FALSE, text |-> <<>>]} \cup {[ok |-> TRUE, text |-> t] : t \in {<<>>} \cup TranscriptTexts \cup RuleTexts}

IsStale_Never(buf) == FALSE

IsStale(buf) == now - lastProcessingTime > staleThreshold /\ BufferWords(buf) # <<>>

\* the error count handleTranscriptionError reads: a call that returns has reset it
CountAtError(result) == IF result.ok THEN 0 ELSE errorCount

TranscribeDone(s, result, fault) ==
    LET appended == Append(buffer, [id |-> nextFrag + 1, txt |-> result.text])
        failed == ~result.ok \/ result.text = <<>>
        h == handleTranscriptionError(CountAtError(result))
        f == IF failed THEN h.flush
             ELSE IF IsStale(appended) THEN StartFlush(appended, "stale")
             ELSE NoFlush(appended)
        r == RestartRecording(streamRef, mediaRecorder, fault)
    IN  /\ transcribing[s] > 0
        /\ FaultAllowed(fault)
        /\ fault # "none" => r.entered
        /\ transcribing' = [transcribing EXCEPT ![s] = @ - 1]
        /\ IF failed
             THEN /\ failRun < MaxErrors
                  /\ errorCount' = h.count
                  /\ failRun' = failRun + 1
                  /\ fallbacks' = fallbacks + h.appended
                  /\ UNCHANGED nextFrag
             ELSE /\ nextFrag < MaxFrags
                  /\ errorCount' = 0
                  /\ failRun' = 0
                  /\ fallbacks' = 0
                  /\ nextFrag' = nextFrag + 1
        /\ ApplyFlush(f)
        /\ isProcessing' = FALSE
        /\ mediaRecorder' = r.rec
        /\ stopEvents' = stopEvents + r.stops
        /\ audioBytes' = IF r.entered THEN 0 ELSE audioBytes
        /\ faults' = faults + FaultCount(fault)
        /\ UNCHANGED <<calc, now, isRecording, session, startsPending, devVars, monVars,
                       audioLevel, noteVars>>

(***************************************************************************)
(* generateTopicalNote from the completion of generateText, and the rest of *)
(* processAccumulatedContent.  fl = the invocation; result = [ok, text]: ok *)
(* is false when generateText throws, text is the generated text.           *)
(***************************************************************************)
GenerateResults ==
    {[ok |-> FALSE, text |-> NoText]} \cup {[ok |-> TRUE, text |-> t] : t \in SummaryTexts}

TextIncludes(t, w) == SeqIncludes(t.words, w)

IsDuplicate(summaryText, processed) ==
    \E existingSummary \in processed :
        ExceedsDuplicateThreshold(
            calculateSimpleStringSimilarity(Trim(summaryText), existingSummary))

\* the value generateTopicalNote returns, with the reason
NoteResult(result, processed) ==
    IF ~result.ok THEN [note |-> NoText, outcome |-> "failed"]
    ELSE IF TextIncludes(result.text, "NO_NOTEWORTHY_CONTENT")
      THEN [note |-> NoText, outcome |-> "filtered"]
    ELSE IF IsDuplicate(result.text, processed)
      THEN [note |-> NoText, outcome |-> "duplicate"]
    ELSE [note |-> result.text, outcome |-> "note"]

\* A generateTopicalNote that does not record the summaries it returns.
AddProcessed_Forgets(processed, g) == processed

\* processedSummariesRef.current.add(summaryText.trim())
AddProcessed(processed, g) ==
    IF g.outcome = "note" THEN processed \cup {Trim(g.note)} ELSE processed

\* if (topicalNote)
Truthy(t) == ~IsEmptyString(t)

\* lastProcessingTimeRef.current after the invocation got topicalNote
ProcessingTimeAfter(topicalNote) ==
    IF Truthy(topicalNote) THEN now ELSE lastProcessingTime

GenerateDone(fl, result) ==
    LET g == NoteResult(result, processedSummaries)
    IN  /\ fl \in flushes
        /\ flushes' = flushes \ {fl}
        /\ filteredCount' = filteredCount + (IF g.outcome = "filtered" THEN 1 ELSE 0)
        /\ processedSummaries' = AddProcessed(processedSummaries, g)
        /\ IF Truthy(g.note)
             THEN /\ summary' = g.note
                  /\ emitted' = Append(emitted, [id |-> fl.id, note |-> g.note,
                                                 from |-> fl.sess, sess |-> session])
             ELSE UNCHANGED <<summary, emitted>>
        \* setSummary(topicalNote): a render with a new summary runs the Canvas effect
        /\ SetSink(IF Truthy(g.note) /\ g.note # summary
                     THEN SummaryEffect(g.note, transcription, Sink)
                     ELSE Sink)
        /\ lastProcessingTime' = ProcessingTimeAfter(g.note)
        /\ buffer' = <<>>
        /\ cleared' = cleared \cup FragIds(buffer)
        /\ isProcessing' = FALSE
        /\ audioLevel' = IF fl.kind = "stop" THEN 0 ELSE audioLevel
        /\ lastOutcome' = g.outcome
        /\ lastText' = IF result.ok THEN result.text ELSE NoText
        /\ UNCHANGED <<calc, now, isRecording, session, startsPending, devVars, recVars,
                       monVars, nextFlush, transcription, contentQuality, scored,
                       pauseFlushes, errVars, transcribing, nextFrag, faults>>

(***************************************************************************)
(* checkForSpeechPause, on the level history after the new sample.          *)
(* Yields the new silenceStart and the flush it starts.                     *)
(***************************************************************************)
LastN(s, n) == SubSeq(s, Len(s) - n + 1, Len(s))

IsCurrentlySilent(hist) ==
    \A i \in 1..recentSampleCount : LastN(hist, recentSampleCount)[i] < minSilenceLevel

\* timeSinceLastProcessing > minTimeBetweenNotes
NoteIntervalElapsed(timeSinceLastProcessing) == timeSinceLastProcessing > minTimeBetweenNotes

checkForSpeechPause_PauseOnly(hist) ==
    LET timeSinceLastProcessing == now - lastProcessingTime
        wordCount == RawWordCount(buffer)
    IN  IF Len(hist) < recentSampleCount
          THEN [silence |-> silenceStart, flush |-> NoFlush(buffer)]
        ELSE IF ~IsCurrentlySilent(hist)
          THEN [silence |-> NoTime, flush |-> NoFlush(buffer)]
        ELSE IF silenceStart = NoTime
          THEN [silence |-> now, flush |-> NoFlush(buffer)]
        ELSE IF /\ now - silenceStart >= pauseDetectionThreshold
                /\ wordCount >= minContentLength
                /\ NoteIntervalElapsed(timeSinceLastProcessing)
          THEN [silence |-> silenceStart, flush |-> StartFlush(buffer, "pause")]
        ELSE [silence |-> silenceStart, flush |-> NoFlush(buffer)]

checkForSpeechPause(hist) ==
    LET timeSinceLastProcessing == now - lastProcessingTime
        wordCount == RawWordCount(buffer)
    IN  IF wordCount >= maxContentLength /\ NoteIntervalElapsed(timeSinceLastProcessing)
          THEN [silence |-> silenceStart, flush |-> StartFlush(buffer, "length")]
        ELSE IF Len(hist) < recentSampleCount
          THEN [silence |-> silenceStart, flush |-> NoFlush(buffer)]
        ELSE IF ~IsCurrentlySilent(hist)
          THEN [silence |-> NoTime, flush |-> NoFlush(buffer)]
        ELSE IF silenceStart = NoTime
          THEN [silence |-> now, flush |-> NoFlush(buffer)]
        ELSE IF /\ now - silenceStart >= pauseDetectionThreshold
                /\ wordCount >= minContentLength
                /\ NoteIntervalElapsed(timeSinceLastProcessing)
          THEN [silence |-> silenceStart, flush |-> StartFlush(buffer, "pause")]
        ELSE [silence |-> silenceStart, flush |-> NoFlush(buffer)]

(***************************************************************************)
(* sampleAudioLevel: one requestAnimationFrame callback.                    *)
(***************************************************************************)
PushSample_NoShift(hist, level) == Append(hist, level)

\* audioLevelHistoryRef.current.push(average), then shift() when too long
PushSample(hist, level) ==
    LET pushed == Append(hist, level)
    IN  IF Len(pushed) > audioLevelHistorySize THEN Tail(pushed) ELSE pushed

SampleAudioLevel(level) ==
    /\ loops > 0
    /\ IF ~analyser \/ mediaRecorder = "null"
         THEN \* the callback gives up; cancelAnimationFrame hits the frame another
              \* loop has scheduled, if there is one
              /\ level = 0
              /\ loops' = IF animationFrame /\ loops > 1 THEN loops - 2 ELSE loops - 1
              /\ animationFrame' = FALSE
              /\ UNCHANGED <<history, audioLevel, silenceStart, loud, flushVars,
                             lastOutcome, lastText, isProcessing, sinkVars>>
         ELSE LET hist == PushSample(history, level)
                  c == checkForSpeechPause(hist)
              IN  /\ level >= minSilenceLevel => loud < MaxLoud
                  /\ loud' = IF level >= minSilenceLevel THEN loud + 1 ELSE loud
                  /\ history' = hist
                  /\ audioLevel' = level
                  /\ silenceStart' = c.silence
                  /\ ApplyFlush(c.flush)
                  /\ isProcessing' = IF c.flush.ran THEN c.flush.awaiting ELSE isProcessing
                  /\ animationFrame' = TRUE
                  /\ UNCHANGED loops
    /\ UNCHANGED <<calc, now, isRecording, session, startsPending, devVars, recVars, noteVars,
                   errVars, transcribing, nextFrag, faults>>

(***************************************************************************)
(* Canvas: what the user does to the notes.  Each handler calls setNotes,   *)
(* and the render with the new notes runs the effect that makes a note from *)
(* the summary (notes is one of its dependencies).                          *)
(***************************************************************************)
EditTexts == {TheMeetingIsMoved}

\* prevNotes.map((note) => (note.id === id ? { ...note, content } : note))
WithContent(ns, i, content) == [ns EXCEPT ![i].content = content]

\* prevNotes.filter((note) => note.id !== id)
WithoutNote(ns, i) == SubSeq(ns, 1, i - 1) \o SubSeq(ns, i + 1, Len(ns))

UserStep(k) ==
    /\ SetSink(SummaryEffect(summary, transcription, k))
    /\ UNCHANGED <<calc, now, isRecording, session, startsPending, devVars, recVars, monVars,
                   audioLevel, flushVars, noteVars, errVars, lastOutcome, lastText,
                   isProcessing, transcribing, nextFrag, faults>>

\* addNote: an empty note where the user double-clicks
AddNote ==
    /\ Len(notes) < MaxNotes
    /\ UserStep([Sink EXCEPT !.notes = Append(notes, [content |-> NoText,
                                                      rawTranscription |-> <<>>,
                                                      createdAt |-> now])])

\* updateNoteContent(id, content)
UpdateNoteContent(i, content) ==
    /\ i \in 1..Len(notes)
    /\ notes[i].content # content
    /\ UserStep([Sink EXCEPT !.notes = WithContent(notes, i, content)])

\* updateNotePosition(id, position), updateNoteColor(id, color): a new array of
\* notes with the same contents
UpdateNotePosition(i) ==
    /\ i \in 1..Len(notes)
    /\ UserStep(Sink)

\* deleteNote(id)
DeleteNote(i) ==
    /\ i \in 1..Len(notes)
    /\ UserStep([Sink EXCEPT !.notes = WithoutNote(notes, i),
                             !.processed = processedContentsRef \ {Trim(notes[i].content)}])

UserAction ==
    \/ AddNote
    \/ \E i \in 1..Len(notes), content \in EditTexts : UpdateNoteContent(i, content)
    \/ \E i \in 1..Len(notes) : UpdateNotePosition(i)
    \/ \E i \in 1..Len(notes) : DeleteNote(i)

(***************************************************************************)
(* The hook with every input of its environment.                            *)
(***************************************************************************)
Next ==
    \/ Advance
    \/ StartRecording
    \/ \E outcome \in StartOutcomes : GetUserMediaDone(outcome)
    \/ StopRecording
    \/ IntervalTick
    \/ \E size \in ChunkSizes : DataAvailable(size)
    \/ \E final \in {0} \cup ChunkSizes, fault \in FaultChoices : OnRecorderStop(final, fault)
    \/ \E s \in Sessions, result \in TranscribeResults, fault \in FaultChoices :
          TranscribeDone(s, result, fault)
    \/ \E fl \in flushes, result \in GenerateResults : GenerateDone(fl, result)
    \/ \E level \in Levels : SampleAudioLevel(level)
    \/ UserAction

Spec == Init /\ [][Next]_vars

(***************************************************************************)
(* Segmentation and note generation in one session whose device, recorder   *)
(* and transcription service do not fail: every chunk is large enough,      *)
(* every transcription returns text, and the room is silent.                *)
(***************************************************************************)
NextSeg ==
    \/ Advance
    \/ session = 0 /\ StartRecording
    \/ GetUserMediaDone("ok")
    \/ StopRecording
    \/ IntervalTick
    \/ OnRecorderStop(minBlobSize, "none")
    \/ \E s \in Sessions, t \in TranscriptTexts :
          TranscribeDone(s, [ok |-> TRUE, text |-> t], "none")
    \/ \E fl \in flushes, result \in GenerateResults : GenerateDone(fl, result)
    \/ SampleAudioLevel(0)

SpecSeg == Init /\ [][NextSeg]_vars

(***************************************************************************)
(* Note generation and duplicate suppression in one session in which every  *)
(* transcription returns the same noteworthy text; the clock is read at     *)
(* every other step, and one transcript fragment fewer is appended.         *)
(***************************************************************************)
NoteFrags == MaxFrags - 1

NextNote ==
    \/ AdvanceBy(2 * ClockStep)
    \/ session = 0 /\ StartRecording
    \/ GetUserMediaDone("ok")
    \/ StopRecording
    \/ IntervalTick
    \/ OnRecorderStop(minBlobSize, "none")
    \/ \E s \in Sessions :
          /\ nextFrag < NoteFrags
          /\ TranscribeDone(s, [ok |-> TRUE, text |-> <<"report", "shows", "20">>], "none")
    \/ \E fl \in flushes, result \in GenerateResults : GenerateDone(fl, result)
    \/ SampleAudioLevel(0)

SpecNote == Init /\ [][NextNote]_vars

(***************************************************************************)
(* The transcription error path in one session: every chunk is large       *)
(* enough and its transcription throws, returns no text, or returns text.   *)
(***************************************************************************)
ErrResults ==
    { [ok |-> FALSE, text |-> <<>>], [ok |-> TRUE, text |-> <<>>],
      [ok |-> TRUE, text |-> <<"report", "shows", "20">>] }

NextErr ==
    \/ session = 0 /\ StartRecording
    \/ GetUserMediaDone("ok")
    \/ IntervalTick
    \/ OnRecorderStop(minBlobSize, "none")
    \/ \E s \in Sessions, result \in ErrResults : TranscribeDone(s, result, "none")
    \/ \E fl \in flushes, result \in GenerateResults : GenerateDone(fl, result)

SpecErr == Init /\ [][NextErr]_vars

(***************************************************************************)
(* One session that is not stopped and receives one transcript out of      *)
(* RuleTexts, with loud and silent samples and the coarse clock, up to its  *)
(* first invocation of processAccumulatedContent that reaches the scorer:   *)
(* the rules that start an invocation.                                      *)
(***************************************************************************)
RuleFlushes == MaxFlushes - 1

\* generateText throws, or returns a text
RuleResults ==
    { [ok |-> FALSE, text |-> NoText],
      [ok |-> TRUE, text |-> Text(<<"Ship", "beta", "friday">>)] }

NextRule ==
    \/ AdvanceBy(2 * ClockStep)
    \/ session = 0 /\ StartRecording
    \/ GetUserMediaDone("ok")
    \/ IntervalTick
    \/ OnRecorderStop(minBlobSize, "none")
    \/ \E s \in Sessions, t \in RuleTexts :
          /\ nextFrag < NoteFrags
          /\ nextFlush < RuleFlushes
          /\ TranscribeDone(s, [ok |-> TRUE, text |-> t], "none")
    \/ \E fl \in flushes, result \in RuleResults : GenerateDone(fl, result)
    \/ nextFlush < RuleFlushes /\ SampleAudioLevel(0)
    \/ nextFlush < RuleFlushes /\ loud = 0 /\ SampleAudioLevel(500)

SpecRule == Init /\ [][NextRule]_vars

(***************************************************************************)
(* The recorder of one session through chunks of every size and every outcome of           *)
(* transcribe, with start(1000) throwing at a restart, at a fixed time.  The *)
(* device stays: the MediaRecorder constructor does not throw.              *)
(***************************************************************************)
LifeResults ==
    { [ok |-> FALSE, text |-> <<>>], [ok |-> TRUE, text |-> <<>>],
      [ok |-> TRUE, text |-> <<"report", "shows", "20">>] }

LifeFaults == {"none", "start"}

NextLife ==
    \/ session = 0 /\ StartRecording
    \/ GetUserMediaDone("ok")
    \/ StopRecording
    \/ IntervalTick
    \/ \E size \in ChunkSizes : DataAvailable(size)
    \/ \E final \in {0} \cup ChunkSizes, fault \in LifeFaults :
          OnRecorderStop(final, fault) /\ stopEvents' <= MaxStopEvents
    \/ \E s \in Sessions, result \in LifeResults, fault \in LifeFaults :
          /\ nextFrag < NoteFrags
          /\ TranscribeDone(s, result, fault)
          /\ stopEvents' <= MaxStopEvents
    \/ \E fl \in flushes : GenerateDone(fl, [ok |-> FALSE, text |-> NoText])

SpecLife == Init /\ [][NextLife]_vars

(***************************************************************************)
(* Sessions one after the other, each started when nothing of the one      *)
(* before is pending, with a failing and a succeeding transcription, the    *)
(* first silent sample and notes: what startRecording finds and resets.     *)
(***************************************************************************)
ResetResults ==
    { [ok |-> FALSE, text |-> <<>>], [ok |-> TRUE, text |-> <<"report", "shows", "20">>] }

NextReset ==
    \/ AdvanceBy(2 * ClockStep)
    \/ /\ startsPending = 0 /\ stopEvents = 0 /\ TotalTranscribing = 0 /\ flushes = {}
       /\ StartRecording
    \/ GetUserMediaDone("ok")
    \/ StopRecording
    \/ IntervalTick
    \/ OnRecorderStop(minBlobSize, "none")
    \/ \E s \in Sessions, result \in ResetResults :
          /\ IF result.ok THEN nextFrag < NoteFrags ELSE failRun = 0
          /\ TranscribeDone(s, result, "none")
    \/ \E fl \in flushes :
          GenerateDone(fl, [ok |-> TRUE, text |-> Text(<<"Ship", "beta", "friday">>)])
    \/ silenceStart = NoTime /\ SampleAudioLevel(0)

SpecReset == Init /\ [][NextReset]_vars

(***************************************************************************)
(* The gates of note generation in one session that receives one transcript *)
(* (filler that scores below 0.1, two words in three pieces that score 0.1, *)
(* or content) and is stopped at any time: quality, the generator's answer, *)
(* duplicates, failure of generateText.                                     *)
(***************************************************************************)
GateTexts ==
    { <<"um", "so", "um", "yes">>, <<"hi", "", "there">>, <<"report", "shows", "20">> }

\* generateText throws, answers that nothing is noteworthy, or returns a text
\* (the same text each time: its second return is a duplicate)
GateResults ==
    { [ok |-> FALSE, text |-> NoText],
      [ok |-> TRUE, text |-> NoNoteworthy],
      [ok |-> TRUE, text |-> Text(<<"Ship", "beta", "friday">>)] }

NextGate ==
    \/ AdvanceBy(2 * ClockStep)
    \/ session = 0 /\ StartRecording
    \/ GetUserMediaDone("ok")
    \/ StopRecording
    \/ IntervalTick
    \/ OnRecorderStop(minBlobSize, "none")
    \/ \E s \in Sessions, t \in GateTexts :
          /\ nextFrag < NoteFrags
          /\ TranscribeDone(s, [ok |-> TRUE, text |-> t], "none")
    \/ \E fl \in flushes, result \in GateResults : GenerateDone(fl, result)
    \/ SampleAudioLevel(0)

SpecGate == Init /\ [][NextGate]_vars

(***************************************************************************)
(* Starting and stopping sessions with every outcome of the start: the      *)
(* device is acquired or denied, the audio context or the recorder cannot   *)
(* be set up.  The recorder is stopped by the chunk timer before it has     *)
(* delivered data, and restarted.                                           *)
(***************************************************************************)
NextStart ==
    \/ StartRecording
    \/ \E outcome \in StartOutcomes : GetUserMediaDone(outcome)
    \/ StopRecording
    \/ IntervalTick
    \/ OnRecorderStop(0, "none") /\ stopEvents' <= MaxStopEvents
    \/ \E level \in Levels : SampleAudioLevel(level)

SpecStart == Init /\ [][NextStart]_vars

(***************************************************************************)
(* One session in which every transcription returns the same noteworthy    *)
(* text and the note generator returns 'Meeting moved to 3pm tomorrow' or   *)
(* 'The meeting is moved to 3pm tomorrow'.                                  *)
(***************************************************************************)
MeetingResults ==
    { [ok |-> TRUE, text |-> MeetingMoved], [ok |-> TRUE, text |-> TheMeetingIsMoved] }

NextMeeting ==
    \/ AdvanceBy(2 * ClockStep)
    \/ session = 0 /\ StartRecording
    \/ GetUserMediaDone("ok")
    \/ StopRecording
    \/ IntervalTick
    \/ OnRecorderStop(minBlobSize, "none")
    \/ \E s \in Sessions :
          /\ nextFrag < NoteFrags
          /\ TranscribeDone(s, [ok |-> TRUE, text |-> <<"report", "shows", "20">>], "none")
    \/ \E fl \in flushes, result \in MeetingResults : GenerateDone(fl, result)
    \/ SampleAudioLevel(0)

SpecMeeting == Init /\ [][NextMeeting]_vars

(***************************************************************************)
(* One session in which every transcription returns the same noteworthy    *)
(* text and the note generator returns one of two texts, while the user    *)
(* edits, moves and deletes the notes made from the summaries.              *)
(***************************************************************************)
CanvasResults ==
    { [ok |-> TRUE, text |-> Text(<<"Ship", "beta", "friday">>)],
      [ok |-> TRUE, text |-> MeetingMoved] }

NextCanvas ==
    \/ AdvanceBy(2 * ClockStep)
    \/ session = 0 /\ StartRecording
    \/ GetUserMediaDone("ok")
    \/ IntervalTick
    \/ OnRecorderStop(minBlobSize, "none")
    \/ \E s \in Sessions :
          /\ nextFrag < NoteFrags
          /\ TranscribeDone(s, [ok |-> TRUE, text |-> <<"report", "shows", "20">>], "none")
    \/ \E fl \in flushes, result \in CanvasResults : GenerateDone(fl, result)
    \/ SampleAudioLevel(0)
    \/ \E i \in 1..Len(notes), content \in EditTexts : UpdateNoteContent(i, content)
    \/ \E i \in 1..Len(notes) : UpdateNotePosition(i)
    \/ \E i \in 1..Len(notes) : DeleteNote(i)

SpecCanvas == Init /\ [][NextCanvas]_vars

(***************************************************************************)
(* Sessions that are stopped and started while transcriptions and note      *)
(* generations of the session before are pending; a transcription fails or  *)
(* returns text.                                                            *)
(***************************************************************************)
NextCross ==
    \/ AdvanceBy(2 * ClockStep)
    \/ StartRecording
    \/ GetUserMediaDone("ok")
    \/ StopRecording
    \/ IntervalTick
    \/ OnRecorderStop(minBlobSize, "none")
    \/ \E s \in Sessions, result \in ResetResults :
          /\ IF result.ok THEN nextFrag < NoteFrags ELSE failRun = 0
          /\ TranscribeDone(s, result, "none")
    \/ \E fl \in flushes :
          GenerateDone(fl, [ok |-> TRUE, text |-> Text(<<"Ship", "beta", "friday">>)])

SpecCross == Init /\ [][NextCross]_vars

(***************************************************************************)
(* The text functions called on their own, on every argument out of a set  *)
(* of strings: the two similarity measures and the quality scorer.          *)
(***************************************************************************)
\* '', whitespace only, texts that differ in case or in surrounding whitespace
\* only, texts with a repeated word and with words in common
SimilarityTexts ==
    { NoText, Padded(<<>>),
      Text(<<"Ship", "beta">>), Text(<<"ship", "Beta">>), Padded(<<"ship", "beta">>),
      Text(<<"ship", "ship", "beta">>), Text(<<"ship", "friday", "review">>),
      MeetingMoved, TheMeetingIsMoved }

\* '', ' ', one word, two words with two spaces between them, filler, words
\* that each hold three filler patterns, content, maxContentLength words
QualityTexts ==
    { <<>>, <<"", "">>, <<"ok">>, <<"hi", "", "there">>, <<"um", "so", "um", "yes">>,
      <<"umumum", "umumum", "umumum">>, <<"report", "shows", "20">>,
      <<"report", "shows", "20", "?">>, LongText }

CallSimpleStringSimilarity(str1, str2) ==
    /\ calc' = [NoCalc EXCEPT !.fn = "calculateSimpleStringSimilarity",
                              !.str1 = str1, !.str2 = str2,
                              !.value = calculateSimpleStringSimilarity(str1, str2)]
    /\ UNCHANGED hookVars

CallStringSimilarity(str1, str2) ==
    /\ calc' = [NoCalc EXCEPT !.fn = "calculateStringSimilarity",
                              !.str1 = str1, !.str2 = str2,
                              !.value = calculateStringSimilarity(str1, str2)]
    /\ UNCHANGED hookVars

CallAnalyzeContentQuality(text) ==
    /\ calc' = [NoCalc EXCEPT !.fn = "analyzeContentQuality",
                              !.text = text,
                              !.analysis = analyzeContentQuality(text)]
    /\ UNCHANGED hookVars

NextText ==
    \/ \E str1, str2 \in SimilarityTexts : CallSimpleStringSimilarity(str1, str2)
    \/ \E str1, str2 \in SimilarityTexts : CallStringSimilarity(str1, str2)
    \/ \E text \in QualityTexts : CallAnalyzeContentQuality(text)

SpecText == Init /\ [][NextText]_vars

(***************************************************************************)
(* Properties.                                                              *)
(***************************************************************************)

\* C1: notes are emitted in speech order: of two invocations of one session
\* that both produce a note, the one started first has its note emitted first
\* (invocations are numbered in the order they start).
C1_SpeechOrder ==
    \A i, j \in 1..Len(emitted) :
        (i < j /\ emitted[i].from = emitted[j].from) => emitted[i].id < emitted[j].id

\* C2: at most one invocation of processAccumulatedContent per session has
\* started and not yet cleared the buffer.
C2_OneFlushInFlight ==
    \A s \in Sessions : Cardinality({fl \in flushes : fl.sess = s}) <= 1

\* C3: any two invocations of one session started by the pause rule start at
\* least minTimeBetweenNotes apart.
C3_PauseFlushSpacing ==
    \A i, j \in 1..Len(pauseFlushes) :
        i < j => pauseFlushes[j] - pauseFlushes[i] >= minTimeBetweenNotes

\* C4: the text an invocation removes from the buffer is the text it scored:
\* no transcript fragment is scored by two invocations, and every fragment an
\* invocation removed was scored by exactly one.
C4_ClearedIsScored ==
    \A x \in FragRange : scored[x] <= 1 /\ (x \in cleared => scored[x] = 1)

\* C5: every invocation that finishes, whatever its outcome, leaves
\* lastProcessingTime at the time of the flush (between its start and its end).
C5_EveryFlushResets ==
    [][ /\ \A fl \in flushes \ flushes' :
              lastProcessingTime' >= fl.at /\ lastProcessingTime' <= now
        /\ (nextFlush' # nextFlush /\ flushes' = flushes) => lastProcessingTime' = now
      ]_vars

\* C6: no two notes emitted during one session have the same text ignoring case
\* and surrounding whitespace, and none has a word overlap above 0.85 with a note
\* emitted before it during that session.
C6_NoDuplicateNotes ==
    \A i, j \in 1..Len(emitted) :
        (i < j /\ emitted[i].sess = emitted[j].sess) =>
            LET earlier == Trim(emitted[i].note)
                later == Trim(emitted[j].note)
                sim == calculateSimpleStringSimilarity(later, earlier)
            IN  /\ ToLower(later) # ToLower(earlier)
                /\ sim.num * 100 <= 85 * sim.den

\* C6 witness: the pause rule started two invocations at the same time (the
\* second while the first awaited its summary); one emitted a note and the other
\* then finished with a duplicate of it.
C6_Witness ==
    /\ Len(pauseFlushes) = 2
    /\ pauseFlushes[1] = pauseFlushes[2]
    /\ Len(emitted) = 1
    /\ lastOutcome = "duplicate"
    /\ flushes = {}

\* C7: within one run of failing transcriptions the fallback message is appended
\* (and its flush forced) at most once.
C7_OneFallbackPerRun == fallbacks <= 1

\* C8: after three or more transcriptions in a row that threw or returned no
\* text, the error count is at least 3 and the fallback message has been appended.
C8_EmptyCountsAsError ==
    failRun >= maxTranscriptionErrors =>
        errorCount >= maxTranscriptionErrors /\ fallbacks >= 1

\* C9: a transcription that completes while the session is stopped appends
\* nothing to the buffer, starts no invocation and changes no counter.
C9_LateResultDiscarded ==
    [][ ((\E s \in Sessions : transcribing'[s] < transcribing[s])
            /\ session > 0 /\ ~isRecording) =>
          /\ buffer' = buffer
          /\ nextFlush' = nextFlush
          /\ flushes' = flushes
          /\ errorCount' = errorCount
          /\ filteredCount' = filteredCount
      ]_vars

\* C10: from stopRecording until the next startRecording no recorder is
\* recording, no sampling callback is scheduled, no chunk timer is set and no
\* acquired stream has live tracks.
C10_StoppedIsQuiet ==
    (session > 0 /\ ~isRecording) =>
        /\ mediaRecorder # "recording"
        /\ loops = 0
        /\ intervals = 0
        /\ liveStreams = 0

\* C11: stopRecording with a buffer that holds any text scores that buffer,
\* however few words it holds: the step that stops the session starts an
\* invocation of processAccumulatedContent that reaches the scorer.
C11_StopFlushesAll ==
    [][ (isRecording /\ ~isRecording' /\ BufferWords(buffer) # <<>>) =>
          nextFlush' = nextFlush + 1
      ]_vars

\* C12: an invocation that reaches the scorer in a step other than
\* stopRecording hands it at least minContentLength words (words as the scorer
\* counts them, split at runs of whitespace).
C12_ScoredHasMinWords ==
    [][ (nextFlush' = nextFlush + 1 /\ ~(isRecording /\ ~isRecording')) =>
          Len(NonEmptyWords(transcription')) >= minContentLength
      ]_vars

\* The handling of a chunk ends: processAudioChunks returns without calling
\* transcribe (no chunks, undersized blob), or a transcribe call has settled and
\* the rest of processAudioChunks has run.
ChunkOutcome ==
    \/ \E final \in {0} \cup ChunkSizes, fault \in FaultChoices :
          OnRecorderStop(final, fault) /\ transcribing' = transcribing
    \/ \E s \in Sessions : transcribing'[s] < transcribing[s]

C14_RecordsWhileTranscribing ==
    (isRecording /\ streamRef /\ session > 0 /\ transcribing[session] > 0) =>
        mediaRecorder = "recording"

\* C15: the step of startRecording leaves the buffer empty, the error count 0,
\* no silence start, lastProcessingTime at the time of the start, the counter
\* of filtered content 0, and both the set of emitted summaries of the hook and
\* the set of note contents of the Canvas empty.
C15_StartResets ==
    [][ session' = session + 1 =>
          /\ buffer' = <<>>
          /\ errorCount' = 0
          /\ silenceStart' = NoTime
          /\ lastProcessingTime' = now'
          /\ filteredCount' = 0
          /\ processedSummaries' = {}
          /\ processedContentsRef' = {}
      ]_vars

\* A second session has just started (getUserMedia pending) after a session
\* that made a note, and at a later time.
C15_Witness ==
    /\ session = 2 /\ isRecording /\ startsPending > 0 /\ ~streamRef
    /\ Len(notes) > 0 /\ Len(emitted) > 0
    /\ lastProcessingTime = now
    /\ lastNoteTimeRef # NoTime /\ lastNoteTimeRef < now
    /\ processedSummaries = {}
    /\ processedContentsRef = {}

\* processAudioChunks runs on a blob of more than 0 and fewer than 800 bytes.
UndersizedChunk ==
    \E final \in {0} \cup ChunkSizes, fault \in FaultChoices :
        /\ OnRecorderStop(final, fault)
        /\ audioBytes + final > 0
        /\ audioBytes + final < minBlobSize

\* C16: the handling of a chunk whose blob is smaller than 800 bytes calls
\* neither transcribe nor processAccumulatedContent and leaves the buffer, the
\* error count, lastProcessingTime, the set of emitted summaries, the counter
\* of filtered content, the summary and the notes of the Canvas with the set of
\* their contents as they are.
C16_UndersizedDiscarded ==
    [][ UndersizedChunk =>
          /\ transcribing' = transcribing
          /\ nextFlush' = nextFlush
          /\ flushes' = flushes
          /\ buffer' = buffer
          /\ errorCount' = errorCount
          /\ lastProcessingTime' = lastProcessingTime
          /\ processedSummaries' = processedSummaries
          /\ filteredCount' = filteredCount
          /\ summary' = summary
          /\ processedContentsRef' = processedContentsRef
          /\ notes' = notes
      ]_vars

\* An undersized chunk has just been handled in a session with text in its
\* buffer and an error counted: the recorder runs again and the chunk list is
\* empty.
C16_Witness ==
    /\ isRecording /\ streamRef
    /\ stopEvents > 0
    /\ mediaRecorder = "recording"
    /\ audioBytes = 0
    /\ buffer # <<>>
    /\ errorCount > 0
    /\ TotalTranscribing = 0

\* C17: on a sampling tick (silent or loud sample) with at least
\* maxContentLength words in the buffer and more than minTimeBetweenNotes since
\* lastProcessingTime, checkForSpeechPause starts an invocation on the whole
\* buffer by the length rule, the invocation reaches the scorer, and the pause
\* rule is not evaluated: silenceStart keeps its value.
C17_LengthRule ==
    \A level \in Levels :
        LET c == checkForSpeechPause(PushSample(history, level))
        IN  ( /\ loops > 0 /\ analyser /\ mediaRecorder # "null"
              /\ Len(NonEmptyWords(BufferWords(buffer))) >= maxContentLength
              /\ now - lastProcessingTime > minTimeBetweenNotes ) =>
              /\ c.flush.ran
              /\ c.flush.kind = "length"
              /\ c.flush.content = buffer
              /\ c.silence = silenceStart

\* A length-rule invocation started on this very tick by a loud sample, with the
\* silence start left as the earlier silent tick set it.
C17_Witness ==
    /\ \E f \in flushes :
          /\ f.kind = "length" /\ f.at = now
          /\ Len(NonEmptyWords(BufferWords(f.content))) >= maxContentLength
    /\ audioLevel >= minSilenceLevel
    /\ silenceStart # NoTime
    /\ now - lastProcessingTime > minTimeBetweenNotes

\* C18: on a sampling tick in SilencePending (the recorder exists, silence has
\* started, the sample is silent and so are the four before it) on which the
\* length rule does not apply, checkForSpeechPause starts an invocation that
\* reaches the scorer exactly when the silence has lasted at least
\* pauseDetectionThreshold, the buffer holds at least minContentLength words
\* and at least minTimeBetweenNotes have passed since lastProcessingTime.
C18_PauseRule ==
    LET hist == PushSample(history, 0)
    IN  ( /\ loops > 0 /\ analyser /\ mediaRecorder # "null"
          /\ silenceStart # NoTime
          /\ Len(hist) >= recentSampleCount
          /\ IsCurrentlySilent(hist)
          /\ RawWordCount(buffer) < maxContentLength ) =>
          ( checkForSpeechPause(hist).flush.ran <=>
              /\ now - silenceStart >= pauseDetectionThreshold
              /\ TrimmedWordCount(buffer) >= minContentLength
              /\ now - lastProcessingTime >= minTimeBetweenNotes )

\* C19 (as stated): every append of a transcript fragment made more than
\* staleThreshold after lastProcessingTime starts an invocation that reaches
\* the scorer, however few words the buffer holds.
C19_StaleFlushesAll ==
    [][ (nextFrag' = nextFrag + 1 /\ now - lastProcessingTime > staleThreshold) =>
          nextFlush' = nextFlush + 1
      ]_vars

\* C19 (amended): an append of a transcript fragment made more than
\* staleThreshold after lastProcessingTime starts an invocation that scores the
\* buffer with the new fragment, unless that buffer holds fewer than
\* minContentLength words, and then the buffer is kept; the buffer is empty
\* when an invocation completes.
C19_StaleFlushesContent ==
    [][ /\ (nextFrag' = nextFrag + 1 /\ now - lastProcessingTime > staleThreshold) =>
             IF nextFlush' = nextFlush + 1
               THEN /\ scored'[nextFrag'] = 1
                    /\ Len(NonEmptyWords(transcription')) > 0
                    /\ \/ buffer' = <<>>
                       \/ \E f \in flushes' \ flushes : f.content = buffer'
               ELSE /\ buffer' # <<>>
                    /\ buffer'[Len(buffer')].id = nextFrag'
                    /\ Len(NonEmptyWords(BufferWords(buffer'))) < minContentLength
        /\ (flushes' # flushes /\ flushes' \subseteq flushes) => buffer' = <<>>
      ]_vars

\* An invocation started by the staleness rule at this very append.
C19_Witness ==
    \E f \in flushes :
        /\ f.kind = "stale" /\ f.at = now
        /\ now - lastProcessingTime > staleThreshold
        /\ Len(NonEmptyWords(BufferWords(f.content))) >= minContentLength
        /\ buffer = f.content

\* C20: a step in which generateTopicalNote returns a note (the text passed
\* the scoring and the duplicate test of the hook, and setSummary is called)
\* adds exactly one note to the Canvas, and no other step adds a note.
C20_OneNotePerAcceptedFlush ==
    [][ Len(notes') - Len(notes) = Len(emitted') - Len(emitted) ]_vars

\* stopRecording runs with at least minContentLength words in the buffer.
StopWithContent ==
    /\ isRecording /\ ~isRecording'
    /\ Len(NonEmptyWords(BufferWords(buffer))) >= minContentLength

\* C21 (as stated): stopRecording with at least minContentLength words in the
\* buffer starts an invocation that awaits its note, and when the invocation
\* started by stopRecording completes exactly one note is emitted, in the step
\* in which stopRecording ends (it sets the audio level to 0).
C21_StopEmitsOneNote ==
    [][ /\ StopWithContent => \E fl \in flushes' \ flushes : fl.kind = "stop"
        /\ \A fl \in flushes \ flushes' :
              fl.kind = "stop" =>
                 /\ Len(emitted') = Len(emitted) + 1
                 /\ emitted'[Len(emitted')].id = fl.id
                 /\ audioLevel' = 0
      ]_vars

\* C21 (amended): stopRecording with at least minContentLength words in the
\* buffer scores the whole buffer; it awaits a note exactly when the score is
\* at least 0.1, and otherwise it ends in that step with no note.  When the
\* invocation started by stopRecording completes, at most one note is emitted:
\* exactly one, in the step in which stopRecording ends, when the generator
\* returned a text that is accepted, and none when generateText failed, answered
\* that there is no noteworthy content, or returned a duplicate.
C21_StopEmitsAcceptedNote ==
    [][ /\ StopWithContent =>
              LET a == analyzeContentQuality(BufferWords(buffer))
              IN  /\ nextFlush' = nextFlush + 1
                  /\ transcription' = BufferWords(buffer)
                  /\ IF a.num * 1000 >= overrideScore * a.den
                       THEN \E fl \in flushes' \ flushes :
                               fl.kind = "stop" /\ fl.content = buffer
                       ELSE /\ flushes' = flushes
                            /\ emitted' = emitted
                            /\ audioLevel' = 0
        /\ \A fl \in flushes \ flushes' :
              fl.kind = "stop" =>
                 /\ audioLevel' = 0
                 /\ IF lastOutcome' = "note"
                      THEN /\ Len(emitted') = Len(emitted) + 1
                           /\ emitted'[Len(emitted')].id = fl.id
                           /\ summary' = emitted'[Len(emitted')].note
                      ELSE /\ emitted' = emitted
                           /\ lastOutcome' \in {"failed", "filtered", "duplicate"}
      ]_vars

\* The session was stopped before any rule started an invocation; the one
\* invocation, started by stopRecording, has completed with a note, and
\* stopRecording has ended.
C21_Witness ==
    /\ session = 1 /\ ~isRecording
    /\ pauseFlushes = <<>> /\ now <= staleThreshold
    /\ nextFlush = 1 /\ flushes = {}
    /\ Len(emitted) = 1 /\ emitted[1].id = 1
    /\ lastOutcome = "note"
    /\ audioLevel = 0

\* startRecording ends by throwing: getUserMedia rejected, or
\* createAndStartMediaRecorder returned false (no chunk timer is set).
StartFails == startsPending' = startsPending - 1 /\ intervals' = intervals

\* C22: when startRecording fails, it leaves no acquired stream with live
\* tracks, no audio context, no chunk timer and no recorder that records.
\* (The sampling callback that is still scheduled gives up when it runs.)
C22_FailedStartLeavesNothing ==
    [][ StartFails =>
          /\ liveStreams' = 0
          /\ ~audioContext'
          /\ intervals' = 0
          /\ mediaRecorder' # "recording"
      ]_vars

\* The ratios a and b are the same number.
SameRatio(a, b) == a.num * b.den = b.num * a.den

\* C23: calculateSimpleStringSimilarity(a, b) = calculateSimpleStringSimilarity(b, a)
\* for all strings a and b, strings with repeated words included.
C23_OverlapSymmetric ==
    calc.fn = "calculateSimpleStringSimilarity" =>
        SameRatio(calc.value, calculateSimpleStringSimilarity(calc.str2, calc.str1))

IsOne(sim) == sim.num = sim.den
IsZero(sim) == sim.num = 0

\* C24: for calculateSimpleStringSimilarity and calculateStringSimilarity, the
\* similarity of a non-empty string with itself is 1, the similarity of a
\* non-empty string with '' is 0 in both orders, and the similarity of two
\* non-empty strings that differ in letter case only is 1.
C24_IdentityEmptyCase ==
    calc.fn \in {"calculateSimpleStringSimilarity", "calculateStringSimilarity"} =>
        /\ (calc.str1 = calc.str2 /\ ~IsEmptyString(calc.str1)) => IsOne(calc.value)
        /\ (IsEmptyString(calc.str1) # IsEmptyString(calc.str2)) => IsZero(calc.value)
        /\ ( /\ ~IsEmptyString(calc.str1) /\ ~IsEmptyString(calc.str2)
             /\ ToLower(calc.str1) = ToLower(calc.str2) ) => IsOne(calc.value)

\* calculateStringSimilarity('Ship beta', 'ship Beta') has returned 1.
C24_Witness ==
    /\ calc.fn = "calculateStringSimilarity"
    /\ calc.str1 = Text(<<"Ship", "beta">>)
    /\ calc.str2 = Text(<<"ship", "Beta">>)
    /\ IsOne(calc.value)

\* The session has emitted 'Meeting moved to 3pm tomorrow' and not yet
\* 'The meeting is moved to 3pm tomorrow'.
EmittedMeetingMoved ==
    /\ Trim(MeetingMoved) \in processedSummaries
    /\ Trim(TheMeetingIsMoved) \notin processedSummaries

\* generateTopicalNote when generateText returns 'The meeting is moved to 3pm tomorrow'
SecondMeetingNote ==
    NoteResult([ok |-> TRUE, text |-> TheMeetingIsMoved], processedSummaries)

\* C25 (as stated): once the session has emitted 'Meeting moved to 3pm
\* tomorrow', the word overlap of 'The meeting is moved to 3pm tomorrow' with it
\* is at least 0.85 and generateTopicalNote rejects that text as a duplicate.
C25_SecondRejected ==
    EmittedMeetingMoved =>
        LET sim == calculateSimpleStringSimilarity(Trim(TheMeetingIsMoved), Trim(MeetingMoved))
        IN  /\ sim.num * 100 >= duplicateThresholdPct * sim.den
            /\ SecondMeetingNote.outcome = "duplicate"

\* C25 (amended): once the session has emitted 'Meeting moved to 3pm
\* tomorrow', the word overlap of 'The meeting is moved to 3pm tomorrow' with it
\* is 5/7, which is not above 0.85, and generateTopicalNote returns that text
\* as a note.
C25_SecondAccepted ==
    EmittedMeetingMoved =>
        LET sim == calculateSimpleStringSimilarity(Trim(TheMeetingIsMoved), Trim(MeetingMoved))
        IN  /\ SameRatio(sim, [num |-> 5, den |-> 7])
            /\ ~ExceedsDuplicateThreshold(sim)
            /\ SecondMeetingNote.outcome = "note"
            /\ SecondMeetingNote.note = TheMeetingIsMoved

\* The session has emitted 'Meeting moved to 3pm tomorrow' and then 'The
\* meeting is moved to 3pm tomorrow'.
C25_Witness ==
    /\ Len(emitted) = 2
    /\ emitted[1].note = MeetingMoved /\ emitted[2].note = TheMeetingIsMoved
    /\ emitted[1].sess = 1 /\ emitted[2].sess = 1
    /\ summary = TheMeetingIsMoved

\* C26: the score analyzeContentQuality returns lies in [0, 1]; isNoteworthy
\* holds only if the score is at least 0.15; a text of fewer than 3 words gets
\* the score 0.1 and an empty or whitespace-only text the score 0, and neither
\* is noteworthy.
C26_ScoreInRange ==
    calc.fn = "analyzeContentQuality" =>
        LET a == calc.analysis
            wordCount == Len(NonEmptyWords(calc.text))
        IN  /\ a.den > 0
            /\ 0 <= a.num /\ a.num <= a.den
            /\ a.isNoteworthy => a.num * 1000 >= noteworthyScore * a.den
            /\ wordCount = 0 => (a.num = 0 /\ ~a.isNoteworthy)
            /\ (wordCount > 0 /\ wordCount < minContentLength) =>
                   (a.num * 10 = a.den /\ ~a.isNoteworthy)

\* analyzeContentQuality('umumum umumum umumum') has returned the score 0: the
\* filler penalty exceeds the base score.
C26_Witness ==
    /\ calc.fn = "analyzeContentQuality"
    /\ calc.text = <<"umumum", "umumum", "umumum">>
    /\ calc.analysis.num = 0
    /\ ~calc.analysis.isNoteworthy

\* C27: an invocation that scores a text goes on to generateText exactly when
\* the score is at least 0.1; the counter of filtered content grows by one in
\* the step in which an invocation is rejected for quality (score below 0.1,
\* or the generator answers NO_NOTEWORTHY_CONTENT), and is left as it is by an
\* invocation that is accepted, rejected as a duplicate, or whose generateText
\* fails, and by every other step but startRecording.
C27_OverrideAndFilteredCount ==
    [][ LET a == analyzeContentQuality(transcription')
            started == nextFlush' = nextFlush + 1
            completed == flushes \ flushes'
        IN  /\ started =>
                  IF a.num * 1000 >= overrideScore * a.den
                    THEN /\ \E fl \in flushes' \ flushes :
                               BufferWords(fl.content) = transcription'
                         /\ contentQuality'.isNoteworthy
                         /\ filteredCount' = filteredCount
                    ELSE /\ flushes' = flushes
                         /\ ~contentQuality'.isNoteworthy
                         /\ filteredCount' = filteredCount + 1
            /\ completed # {} =>
                  /\ lastOutcome' \in {"note", "duplicate", "failed", "filtered"}
                  /\ filteredCount' =
                        filteredCount + (IF lastOutcome' = "filtered" THEN 1 ELSE 0)
            /\ (~started /\ completed = {} /\ session' = session) =>
                  filteredCount' = filteredCount
      ]_vars

\* The one invocation so far scored its text below 0.1 and was rejected
\* without a call of generateText: the counter is 1.
C27_Witness ==
    /\ filteredCount = 1
    /\ nextFlush = 1 /\ flushes = {}
    /\ lastOutcome = "filtered"
    /\ contentQuality.num >= 0
    /\ contentQuality.num * 1000 < overrideScore * contentQuality.den
    /\ ~contentQuality.isNoteworthy
    /\ buffer = <<>>

\* C28: the level history never holds more than audioLevelHistorySize samples;
\* it only changes by being emptied (startRecording), by being filled with
\* zeros (setupAudioLevelMonitoring) or by a sampling tick, which appends the
\* sample and, when the history was full, removes exactly the oldest one.
C28_HistoryBounded ==
    /\ [](Len(history) <= audioLevelHistorySize)
    /\ [][ history' # history =>
             \/ history' = <<>>
             \/ history' = [i \in 1..audioLevelHistorySize |-> 0]
             \/ /\ Len(history) = audioLevelHistorySize
                /\ history' = Tail(history) \o <<audioLevel'>>
             \/ /\ Len(history) < audioLevelHistorySize
                /\ history' = Append(history, audioLevel')
         ]_vars

\* A full history in which the one loud sample has moved from the last place
\* to the place before it: a silent sample has evicted the oldest sample.
C28_Witness ==
    /\ Len(history) = audioLevelHistorySize
    /\ history[audioLevelHistorySize - 1] >= minSilenceLevel
    /\ history[audioLevelHistorySize] = 0
    /\ audioLevel = 0

\* C29: on a sampling tick (the sampling loop runs and the recorder exists)
\* after which the 5 most recent samples are not all below minSilenceLevel,
\* checkForSpeechPause leaves silenceStart unset, also when the length rule
\* starts an invocation on that tick.
C29_SoundClearsSilence ==
    \A level \in Levels :
        LET hist == PushSample(history, level)
        IN  ( /\ loops > 0 /\ analyser /\ mediaRecorder # "null"
              /\ Len(hist) >= recentSampleCount
              /\ ~IsCurrentlySilent(hist) ) =>
              checkForSpeechPause(hist).silence = NoTime

\* C30: an invocation whose text is an exact repeat of a note text of the
\* session is rejected before scoring: no invocation that has been scored and
\* has called generateText ends with a text whose trimmed form is already in
\* the set of emitted summaries.
C30_RepeatRejectedUnscored ==
    [][ \A fl \in flushes \ flushes' :
           ~( /\ lastOutcome' = "duplicate"
              /\ Trim(lastText') \in processedSummaries
              /\ scored'[1] >= 1
              /\ contentQuality # NoQuality )
      ]_vars

\* The Canvas effect has made a note from the summary in this step (it records
\* the summary it made the note from).
NoteCreated == lastSummaryRef' # lastSummaryRef

\* C31: whenever the Canvas makes a note from a summary, the note is the last
\* of the notes, its content is the summary, and calculateStringSimilarity of
\* that content with the content of every other note then on the Canvas is
\* below 0.8, whether the user has edited that content or not.
C31_AcceptanceGate ==
    [][ NoteCreated =>
          LET n == Len(notes')
          IN  /\ n > 0
              /\ notes'[n].content = summary'
              /\ \A i \in 1..(n - 1) :
                    LET sim == calculateStringSimilarity(notes'[n].content, notes'[i].content)
                    IN  sim.num * 100 < similarityThresholdPct * sim.den
      ]_vars

\* A note made from a summary stands after a note whose content the user has
\* edited to 'The meeting is moved to 3pm tomorrow' (no summary has that text).
C31_Witness ==
    /\ Len(notes) = 2
    /\ notes[1].content = TheMeetingIsMoved
    /\ notes[2].content = Text(<<"Ship", "beta", "friday">>)
    /\ notes[2].createdAt > notes[1].createdAt
    /\ lastSummaryRef = notes[2].content

\* C32: the contentQuality the hook publishes is what analyzeContentQuality
\* returns for the text of the most recent invocation (the transcription the
\* hook publishes with it): its isNoteworthy and its reason are not those the
\* override for scores of at least 0.1 sets.
C32_PublishedQualityIsScorers ==
    contentQuality # NoQuality => contentQuality = analyzeContentQuality(transcription)

\* A note the Canvas made from a summary: it carries the transcription of the
\* hook, which is not empty once a summary exists (addNote sets '').
IsFromSummary(n) == n.rawTranscription # <<>>

\* C33: any two notes made from summaries are made at least 1500 ms apart:
\* those on the Canvas pairwise, and each new one against the one made last
\* (whose time the Canvas keeps, also when that note has been deleted).
C33_NotesSpaced ==
    /\ [](\A i, j \in 1..Len(notes) :
             (i < j /\ IsFromSummary(notes[i]) /\ IsFromSummary(notes[j])) =>
                 notes[j].createdAt - notes[i].createdAt >= minNoteInterval)
    /\ [][ NoteCreated =>
             /\ notes'[Len(notes')].createdAt = now'
             /\ lastNoteTimeRef' = now'
             /\ lastNoteTimeRef # NoTime => now' - lastNoteTimeRef >= minNoteInterval
         ]_vars

\* Two notes made from the summaries of two invocations, the second at least
\* 1500 ms after the first.
C33_Witness ==
    /\ Len(notes) = 2 /\ Len(emitted) = 2
    /\ IsFromSummary(notes[1]) /\ IsFromSummary(notes[2])
    /\ notes[1].content = emitted[1].note /\ notes[2].content = emitted[2].note
    /\ notes[2].createdAt - notes[1].createdAt >= minNoteInterval
    /\ lastNoteTimeRef = notes[2].createdAt

\* C34: isProcessing is true in every state in which a transcribe call is
\* pending or an invocation of processAccumulatedContent has started and not
\* finished (it awaits generateText).
C34_BusyWhileInFlight ==
    (TotalTranscribing > 0 \/ flushes # {}) => isProcessing

\* C35: when an invocation of processAccumulatedContent completes and the
\* Canvas makes a note from its summary, the rawTranscription of that note is
\* the buffer text that invocation scored, also when another invocation has
\* started in the meantime.
C35_RawTranscriptOfSameFlush ==
    [][ \A fl \in flushes \ flushes' :
           NoteCreated =>
              notes'[Len(notes')].rawTranscription = BufferWords(fl.content)
      ]_vars

\* What a session owns: the buffer, the error count, lastProcessingTime and
\* the set of emitted summaries.
SessionState == <<buffer, errorCount, lastProcessingTime, processedSummaries>>

\* C36: once a session has been started, no transcribe call and no invocation
\* of processAccumulatedContent issued in an earlier session changes, when it
\* completes, the buffer, the error count, lastProcessingTime or the set of
\* emitted summaries.
C36_SessionsIsolated ==
    [][ /\ \A s \in Sessions :
              (transcribing'[s] < transcribing[s] /\ s < session) =>
                  SessionState' = SessionState
        /\ \A fl \in flushes \ flushes' :
              fl.sess < session => SessionState' = SessionState
      ]_vars

\* processAudioChunks returns without calling transcribe (no chunks, undersized
\* blob) while neither start(1000) nor the MediaRecorder constructor fails for
\* a reason of the device.
ChunkDiscarded ==
    \E final \in {0} \cup ChunkSizes :
        OnRecorderStop(final, "none") /\ transcribing' = transcribing

\* The rest of processAudioChunks runs after transcribe has settled, without a
\* fault of the device.
ChunkTranscribed ==
    /\ \E s \in Sessions : transcribing'[s] < transcribing[s]
    /\ faults' = faults

\* C37: when the handling of a chunk of a recorder the chunk timer has stopped
\* ends in a session that records, and the device does not fail, the stopped
\* recorder is started once and records, and no recorder is stopped to be
\* replaced by a new one: the handling leaves no stop event behind that would
\* run processAudioChunks again.
C37_RestartedOnce ==
    [][ (isRecording /\ streamRef /\ mediaRecorder = "inactive") =>
          /\ ChunkDiscarded =>
                (mediaRecorder' = "recording" /\ stopEvents' = stopEvents - 1)
          /\ ChunkTranscribed =>
                (mediaRecorder' = "recording" /\ stopEvents' = stopEvents)
      ]_vars

\* C38: at any time at most one acquired stream has live tracks, at most one
\* chunk timer is set and at most one sampling callback is scheduled.  (The
\* hook never holds a recording recorder outside mediaRecorderRef: a recorder
\* that records is stopped before the ref is given up.)
C38_AtMostOneOfEach ==
    /\ liveStreams <= 1
    /\ intervals <= 1
    /\ loops <= 1

\* The Canvas made a note from the summary t in this session and the user has
\* deleted it: deleteNote has taken its content out of processedContentsRef and
\* no note has that content.
NoteDeleted(t) ==
    /\ ~IsEmptyString(t)
    /\ lastSummaryRef = t
    /\ Trim(t) \notin processedContentsRef
    /\ \A i \in 1..Len(notes) : notes[i].content # t

\* C39: when an invocation of the running session completes with the text of a
\* note that was made in this session and has been deleted (no note on the
\* Canvas is similar to it and the last note is at least 1500 ms old), the
\* Canvas makes a new note with that text.
C39_DeletedTextAcceptedAgain ==
    [][ \A fl \in flushes \ flushes' :
           ( /\ fl.sess = session
             /\ lastText' = lastSummaryRef
             /\ NoteDeleted(lastSummaryRef)
             /\ ~isSimilarToExisting(lastSummaryRef, NoteContents(notes))
             /\ ~TooSoonAfterLastNote(lastNoteTimeRef) ) =>
               /\ Len(notes') = Len(notes) + 1
               /\ notes'[Len(notes')].content = lastText'
      ]_vars

====
